---- MODULE Spec2Model ----
(***************************************************************************)
(* Offline sync engine of the Offline-Task client: the Redux record store  *)
(* (tasks.items), the operation queue (sync.queue), the network slice, the *)
(* module-level syncInProgressMap and the processSyncQueue thunk, together *)
(* with the intents and triggers that feed it.                             *)
(*                                                                         *)
(* Granularity: JavaScript runs one macrotask (a timer, a network or       *)
(* storage completion, a UI event) with all the microtask continuations it *)
(* schedules before the next one starts.  Every action below is one such   *)
(* macrotask: a handler runs from the event that resumes it up to the next *)
(* await on a timer, a remote call or a storage write.                     *)
(***************************************************************************)
EXTENDS Integers, Sequences, FiniteSets, TLC

\* ------------------------------------------------------------------ bounds
MaxTasks == 2
MaxOps == 2
MaxDrains == 2
MaxRuns == 2
MaxSeqRuns == 4
MaxIntentRuns == 1
MaxPersistRuns == 1
MaxInFlight == 1
MaxLiveRuns == 2
MaxBootRuns == 1
MaxRemote == 1
MaxOverlapRuns == 3

\* ------------------------------------------------------- program constants
MAX_RETRIES == 3
BACKOFF_MULTIPLIER == 2
BASE_DELAY == 1000

VARIABLES
  items,               \* state.tasks.items : record key -> Task
  queue,               \* state.sync.queue  : operations in key insertion order
  isConnected,         \* state.network.isConnected
  isInternetReachable, \* state.network.isInternetReachable ("true","false","null")
  prevConnectionRef,   \* useSyncOnNetworkRestore's prevConnectionRef.current
  syncInProgressMap,   \* keys of the module-level Map<taskId, Promise>
  drains,              \* running processSyncQueue invocations, by slot
  returned,            \* what the most recently settled sync thunk gave its caller
  storedTasks,         \* AsyncStorage value under STORAGE_KEYS.TASKS
  storedQueue,         \* AsyncStorage value under STORAGE_KEYS.SYNC_QUEUE
  pendingWrites,       \* storage writes issued by an intent and not yet landed
  nextLocal,           \* number of local task ids generated so far
  nextOp,              \* number of operation ids generated so far
  nextServer,          \* number of document ids the remote store has assigned
  invocations,         \* number of processSyncQueue invocations so far
  applied,             \* history: opId -> number of successful remote calls (saturates at 2)
  permFailed,          \* history: opIds whose remote call failed with retryable = false
  intent,              \* the createTask / deleteTask thunk awaiting its remote call or save
  persistTimeout,      \* number of timers of the store subscriber that are set and have not fired
  boot                 \* the bootstrapApp thunk: where it is and what it has read and fetched

vars == <<items, queue, isConnected, isInternetReachable, prevConnectionRef,
          syncInProgressMap, drains, returned, storedTasks, storedQueue,
          pendingWrites, nextLocal, nextOp, nextServer, invocations, applied,
          permFailed, intent, persistTimeout, boot>>

netVars == <<isConnected, isInternetReachable, prevConnectionRef>>
idVars == <<nextLocal, nextOp, nextServer>>
genVars == <<nextLocal, nextOp, invocations>>
histVars == <<applied, permFailed>>
storeVars == <<storedTasks, storedQueue, pendingWrites>>

\* ------------------------------------------------------------ value domains
DrainIds == 1..MaxDrains
OpIds == 1..MaxOps
Fields == {"a", "b"}
NewTaskFields == {"a"}
EmptyPayload == "none"
LocalId(n) == <<"L", n>>
ServerId(k) == <<"S", k>>
IsLocalId(id) == id[1] = "L"
TaskIds == {LocalId(n) : n \in 1..MaxTasks} \cup {ServerId(n) : n \in 1..MaxTasks}
Reachability == {"true", "false", "null"}
RemoteOutcomes == {"ok", "retryable", "permanent"}
WriteOutcomes == {"ok", "fail"}
EmptyItems == [k \in {} |-> 0]
NoServerData == [present |-> FALSE]
ServerData(id, f) == [present |-> TRUE, id |-> id, fields |-> f]

\* An online test that looks at isConnected alone.
IsOnlineConnectedOnly(c, r) == c

\* ------------------------------------------------------------ network slice
\* state.network.isConnected && state.network.isInternetReachable !== false
IsOnline(c, r) == c /\ r # "false"

Online == IsOnline(isConnected, isInternetReachable)

\* -------------------------------------------------------------- tasksSlice
\* addTaskLocal: state.items[payload.id] = payload
addTaskLocal(its, task) ==
  [k \in DOMAIN its \cup {task.id} |-> IF k = task.id THEN task ELSE its[k]]

\* updateTaskLocal: Object.assign(task, updates) when the key exists
updateTaskLocal(its, id, f) ==
  IF id \in DOMAIN its THEN [its EXCEPT ![id].fields = f] ELSE its

\* updateSyncStatus: set syncStatus, then Object.assign(task, serverData)
\* (serverData carries id, the fields and syncStatus 'SYNCED'); the key is kept.
updateSyncStatus(its, id, status, serverData) ==
  IF id \notin DOMAIN its THEN its
  ELSE IF serverData.present
    THEN [its EXCEPT ![id] = [id |-> serverData.id, fields |-> serverData.fields,
                              syncStatus |-> "SYNCED"]]
    ELSE [its EXCEPT ![id].syncStatus = status]

\* deleteTaskLocal: delete state.items[id]
deleteTaskLocal(its, id) == [k \in DOMAIN its \ {id} |-> its[k]]

\* --------------------------------------------------------------- syncSlice
\* An enqueue that drops the operation.
enqueueSyncOperationDropped(q, op) == q

\* enqueueSyncOperation: state.queue[op.id] = op (a new key goes last)
enqueueSyncOperation(q, op) == Append(q, op)

\* removeSyncOperation: delete state.queue[opId]
removeSyncOperation(q, opId) == SelectSeq(q, LAMBDA o : o.id # opId)

\* updateSyncOperation: Object.assign(operation, {retryCount}) when the key exists
updateSyncOperation(q, opId, rc) ==
  [i \in 1..Len(q) |-> IF q[i].id = opId THEN [q[i] EXCEPT !.retryCount = rc] ELSE q[i]]

QueueIds(q) == {q[i].id : i \in 1..Len(q)}

\* A lane check that never finds the lane busy.
LaneBusyNever(map, op) == FALSE

\* ------------------------------------------------------- processSyncQueue
\* syncInProgressMap.has(operation.taskId)
LaneBusy(map, op) == op.taskId \in map

\* A max-retries test that lets an operation at exactly MAX_RETRIES through.
ReachedMaxRetriesStrict(op) == op.retryCount > MAX_RETRIES

\* operation.retryCount >= MAX_RETRIES
ReachedMaxRetries(op) == op.retryCount >= MAX_RETRIES

\* A classification that takes every failure for a retryable one.
IsRetryableAlways(outcome) == TRUE

\* error instanceof APIError ? error.retryable : true
IsRetryable(outcome) == outcome # "permanent"

\* isRetryable && operation.retryCount < MAX_RETRIES
ShouldRetry(isRetryable, op) == isRetryable /\ op.retryCount < MAX_RETRIES

\* A backoff delay that does not grow with retryCount.
BackoffDelayFlat(op) == BASE_DELAY * BACKOFF_MULTIPLIER

RECURSIVE Pow(_, _)
Pow(b, e) == IF e = 0 THEN 1 ELSE b * Pow(b, e - 1)

\* const BACKOFF_DELAY = 1000 * Math.pow(BACKOFF_MULTIPLIER, operation.retryCount)
BackoffDelay(op) == BASE_DELAY * Pow(BACKOFF_MULTIPLIER, op.retryCount)

IdleDrain ==
  [pc |-> "idle", snapQueue |-> <<>>, snapItems |-> EmptyItems, idx |-> 0,
   successCount |-> 0, failureCount |-> 0, results |-> <<>>, writing |-> EmptyItems,
   delay |-> 0]

NoReturn ==
  [thunk |-> "sync/processQueue", outcome |-> "none", error |-> "",
   successCount |-> 0, failureCount |-> 0, operationId |-> 0]

\* What an awaited gateway call threw: nothing, an APIError(status, message,
\* retryable), or another Error (which has no retryable flag).
NoError == [kind |-> "none", status |-> 0, retryable |-> FALSE]
APIError(status, retryable) == [kind |-> "APIError", status |-> status, retryable |-> retryable]
OtherError == [kind |-> "Error", status |-> 0, retryable |-> FALSE]

\* No createTask / deleteTask thunk is awaiting anything.
NoIntent ==
  [kind |-> "none", pc |-> "idle", answer |-> "none", taskId |-> LocalId(0),
   fields |-> EmptyPayload, writing |-> EmptyItems, gateway |-> "none",
   cond |-> "none", error |-> NoError]

Result(op, ok, err) == [opId |-> op.id, success |-> ok, error |-> err]

\* The part of the state a processSyncQueue invocation in slot d reads and writes.
Cur(d) ==
  [items |-> items, queue |-> queue, map |-> syncInProgressMap, dr |-> drains[d],
   returned |-> returned, applied |-> applied, permFailed |-> permFailed,
   nextServer |-> nextServer]

Commit(d, st) ==
  /\ items' = st.items
  /\ queue' = st.queue
  /\ syncInProgressMap' = st.map
  /\ drains' = [drains EXCEPT ![d] = st.dr]
  /\ returned' = st.returned
  /\ applied' = st.applied
  /\ permFailed' = st.permFailed
  /\ nextServer' = st.nextServer

\* The max-retries branch of the operation's async block: no await is reached.
MaxRetriesExceeded(st, op) ==
  [st EXCEPT !.items = updateSyncStatus(@, op.taskId, "FAILED", NoServerData),
             !.dr.results = Append(@, Result(op, FALSE, "Max retries exceeded")),
             !.dr.failureCount = @ + 1]

\* A loop that does not await an entry that has to back off: it leaves the
\* entry to its wait and goes on to the entries behind it.
RECURSIVE RunLoopPastBackoff(_, _)
RunLoopPastBackoff(st, i) ==
  IF i > Len(st.dr.snapQueue)
    THEN [st EXCEPT !.dr.pc = "saveTasks", !.dr.idx = i]
    ELSE LET op == st.dr.snapQueue[i] IN
      IF LaneBusy(st.map, op) THEN RunLoopPastBackoff(st, i + 1)
      ELSE IF ReachedMaxRetries(op)
        THEN RunLoopPastBackoff(MaxRetriesExceeded(st, op), i + 1)
      ELSE IF op.retryCount > 0 THEN RunLoopPastBackoff(st, i + 1)
      ELSE [st EXCEPT !.dr.pc = "call", !.dr.idx = i, !.map = @ \cup {op.taskId}]

\* A skip that is recorded as a failure of the entry.
SkipAsFailure(st, op) ==
  [st EXCEPT !.dr.results = Append(@, Result(op, FALSE, "busy")),
             !.dr.failureCount = @ + 1]

\* if (syncInProgressMap.has(operation.taskId)) continue;
Skip(st, op) == st

\* for (const opId of Object.keys(syncQueue)) from entry i, up to the next await
\* on a timer, a remote call or (after the loop) the first storage write.
\* dr.delay is the setTimeout delay the current entry waits (or waited) for.
RECURSIVE RunLoop(_, _)
RunLoop(st, i) ==
  IF i > Len(st.dr.snapQueue)
    THEN [st EXCEPT !.dr.pc = "saveTasks", !.dr.idx = i]
    ELSE LET op == st.dr.snapQueue[i] IN
      IF LaneBusy(st.map, op) THEN RunLoop(Skip(st, op), i + 1)
      ELSE IF ReachedMaxRetries(op) THEN RunLoop(MaxRetriesExceeded(st, op), i + 1)
      ELSE IF op.retryCount > 0
        THEN [st EXCEPT !.dr.pc = "backoff", !.dr.idx = i, !.map = @ \cup {op.taskId},
                        !.dr.delay = BackoffDelay(op)]
        ELSE [st EXCEPT !.dr.pc = "call", !.dr.idx = i, !.map = @ \cup {op.taskId}]

\* A loop over the live queue: on going to the next entry it also takes up the
\* operations enqueued since the drain started.
NextEntryLive(st) ==
  LET op == st.dr.snapQueue[st.dr.idx]
      seen == {st.dr.snapQueue[i].id : i \in 1..Len(st.dr.snapQueue)}
      late == SelectSeq(st.queue, LAMBDA o : o.id \notin seen)
  IN RunLoop([st EXCEPT !.map = @ \ {op.taskId}, !.dr.delay = 0,
                        !.dr.snapQueue = @ \o late], st.dr.idx + 1)

\* A loop that leaves the registration of the entry it is done with in the map.
ReleaseNever(map, op) == map

\* syncInProgressMap.delete(operation.taskId)
Release(map, op) == map \ {op.taskId}

\* await syncPromise; syncInProgressMap.delete(operation.taskId); next entry
NextEntry(st) ==
  LET op == st.dr.snapQueue[st.dr.idx] IN
  RunLoop([st EXCEPT !.map = Release(@, op), !.dr.delay = 0], st.dr.idx + 1)

\* A processSyncQueue that lacks the early return on an empty queue.
processSyncQueueNoEmptyReturn(st, c, r) ==
  IF ~IsOnline(c, r)
    THEN [st EXCEPT !.dr = IdleDrain,
                    !.returned = [NoReturn EXCEPT !.outcome = "rejected",
                                                  !.error = "No internet connection"]]
  ELSE RunLoop([st EXCEPT !.dr = [IdleDrain EXCEPT !.pc = "loop",
                                                   !.snapQueue = st.queue,
                                                   !.snapItems = st.items]], 1)

\* processSyncQueue's payload creator from its first line to its first await,
\* invoked in slot d with the network state (c, r).
processSyncQueue(st, c, r) ==
  IF ~IsOnline(c, r)
    THEN [st EXCEPT !.dr = IdleDrain,
                    !.returned = [NoReturn EXCEPT !.outcome = "rejected",
                                                  !.error = "No internet connection"]]
  ELSE IF Len(st.queue) = 0
    THEN [st EXCEPT !.dr = IdleDrain,
                    !.returned = [NoReturn EXCEPT !.outcome = "fulfilled"]]
  ELSE RunLoop([st EXCEPT !.dr = [IdleDrain EXCEPT !.pc = "loop",
                                                   !.snapQueue = st.queue,
                                                   !.snapItems = st.items]], 1)

\* The lowest idle slot takes the next invocation.
FreeSlot(d) ==
  /\ drains[d].pc = "idle"
  /\ \A e \in DrainIds : e < d => drains[e].pc # "idle"

Bump(n) == IF n < 2 THEN n + 1 ELSE n

\* ------------------------------------------------------ debounced persist
\* A subscriber that sets a new timer without clearing the one that is set.
SubscriberNoClear(n) == n + 1

\* if (persistTimeout) clearTimeout(persistTimeout)
clearTimeout(n) == IF n > 0 THEN n - 1 ELSE 0

\* store.subscribe's listener, run after every dispatched action:
\* clearTimeout, then persistTimeout = setTimeout(..., 500).
Subscriber(n) == clearTimeout(n) + 1

\* An action was dispatched to the store.
Notify == persistTimeout' = Subscriber(persistTimeout)

\* persistState(state): the blobs of state.tasks.items and state.sync.queue,
\* handed to one storage.multiSet.
persistState(its, q) == [key |-> "state", value |-> <<its, q>>]

\* bootstrapApp is not running (it has settled).
NoBoot == [pc |-> "done", local |-> EmptyItems, fetched |-> EmptyItems]

\* ------------------------------------------------------------------- Init
\* The store as constructed (networkSlice's initialState is connected with
\* reachability unknown), nothing persisted, after RootNavigator has mounted:
\* the first run of useSyncOnNetworkRestore's effect saw online with
\* prevConnectionRef false, invoked processSyncQueue on the empty queue (which
\* returned {0, 0} at once) and stored true in prevConnectionRef.
Init ==
  /\ items = EmptyItems
  /\ queue = <<>>
  /\ isConnected = TRUE
  /\ isInternetReachable = "null"
  /\ prevConnectionRef = TRUE
  /\ syncInProgressMap = {}
  /\ drains = [d \in DrainIds |-> IdleDrain]
  /\ returned = [NoReturn EXCEPT !.outcome = "fulfilled"]
  /\ storedTasks = EmptyItems
  /\ storedQueue = <<>>
  /\ pendingWrites = {}
  /\ nextLocal = 0
  /\ nextOp = 0
  /\ nextServer = 0
  /\ invocations = 0
  /\ applied = [o \in OpIds |-> 0]
  /\ permFailed = {}
  /\ intent = NoIntent
  /\ persistTimeout = 1
  /\ boot = NoBoot

\* ------------------------------------------------------- connectivity trigger
\* A trigger that fires on every observation that is online.
IsRestoreLevel(cur, prev) == cur

\* isCurrentlyConnected && !prevConnectionRef.current
IsRestoreEdge(cur, prev) == cur /\ ~prev

\* useNetworkListener dispatches updateNetworkState; useSyncOnNetworkRestore's
\* effect then runs on the changed (isConnected, isInternetReachable).
NetworkChange(c, r, slots, cap) ==
  /\ <<c, r>> # <<isConnected, isInternetReachable>>
  /\ isConnected' = c
  /\ isInternetReachable' = r
  /\ prevConnectionRef' = IsOnline(c, r)
  /\ IF IsRestoreEdge(IsOnline(c, r), prevConnectionRef)
       THEN \E d \in slots :
              /\ FreeSlot(d)
              /\ invocations < cap
              /\ invocations' = invocations + 1
              /\ Commit(d, processSyncQueue(Cur(d), c, r))
       ELSE UNCHANGED <<items, queue, syncInProgressMap, drains, returned,
                        applied, permFailed, nextServer, invocations>>
  /\ UNCHANGED <<intent, storeVars, nextLocal, nextOp>>
  /\ Notify
  /\ UNCHANGED boot

\* TaskListScreen.handleRetrySync: the button is rendered while some task is
\* FAILED and dispatches processSyncQueue when isConnected.
handleRetrySync(d, cap) ==
  /\ \E k \in DOMAIN items : items[k].syncStatus = "FAILED"
  /\ isConnected
  /\ FreeSlot(d)
  /\ invocations < cap
  /\ invocations' = invocations + 1
  /\ Commit(d, processSyncQueue(Cur(d), isConnected, isInternetReachable))
  /\ UNCHANGED <<intent, netVars, storeVars, nextLocal, nextOp>>
  /\ Notify
  /\ UNCHANGED boot

\* retryFailedOperation: the thunk returns {operationId}; no reducer handles
\* its fulfilled action.  It is applied to an operation that has failed before.
RetryReturn(opId) ==
  [NoReturn EXCEPT !.thunk = "sync/retryOperation", !.outcome = "fulfilled",
                   !.operationId = opId]

retryFailedOperation(opId) ==
  /\ \E i \in 1..Len(queue) : queue[i].id = opId /\ queue[i].retryCount > 0
  /\ returned' = RetryReturn(opId)
  /\ UNCHANGED <<intent, items, queue, netVars, syncInProgressMap, drains, storeVars,
                 idVars, invocations, histVars>>
  /\ Notify
  /\ UNCHANGED boot

\* ------------------------------------------------------------------ intents
\* createTask's offline path (CreateTaskScreen then dispatches addTaskLocal and
\* enqueueSyncOperation).
CreateTaskOffline(f) ==
  /\ ~Online
  /\ nextLocal < MaxTasks
  /\ nextOp < MaxOps
  /\ LET taskId == LocalId(nextLocal + 1)
         newTask == [id |-> taskId, fields |-> f, syncStatus |-> "PENDING"]
         syncOp == [id |-> nextOp + 1, taskId |-> taskId, operation |-> "CREATE",
                    payload |-> f, retryCount |-> 0, lastError |-> "none"]
     IN /\ items' = addTaskLocal(items, newTask)
        /\ queue' = enqueueSyncOperation(queue, syncOp)
  /\ nextLocal' = nextLocal + 1
  /\ nextOp' = nextOp + 1
  /\ UNCHANGED <<intent, netVars, syncInProgressMap, drains, returned, storeVars,
                 nextServer, invocations, histVars>>
  /\ Notify
  /\ UNCHANGED boot

\* An edit guard that only rejects ids that are not in the store.
EditRejectionAbsentOnly(its, id) ==
  IF id \notin DOMAIN its THEN "Task not found" ELSE ""

\* updateTask's two guards: the message it rejects with, "" when it accepts.
EditRejection(its, id) ==
  IF id \notin DOMAIN its THEN "Task not found"
  ELSE IF its[id].syncStatus = "SYNCED" THEN "Cannot edit synced tasks"
  ELSE ""

\* updateTask on the task shown as t (EditTaskScreen passes t.id), accepted:
\* the screen then dispatches updateTaskLocal and enqueueSyncOperation.
UpdateTask(k, f) ==
  /\ k \in DOMAIN items
  /\ LET id == items[k].id IN
       /\ EditRejection(items, id) = ""
       /\ f # items[id].fields
       /\ nextOp < MaxOps
       /\ items' = updateTaskLocal(items, id, f)
       /\ queue' = enqueueSyncOperation(queue,
                      [id |-> nextOp + 1, taskId |-> id, operation |-> "UPDATE",
                       payload |-> f, retryCount |-> 0, lastError |-> "none"])
  /\ nextOp' = nextOp + 1
  /\ UNCHANGED <<intent, netVars, syncInProgressMap, drains, returned, storeVars,
                 nextLocal, nextServer, invocations, histVars>>
  /\ Notify
  /\ UNCHANGED boot

\* deleteTask's offline path: deleteTaskLocal, enqueue a DELETE, then
\* Promise.all([saveTasks(items), saveSyncQueue(queue)]).
DeleteTaskOffline(k) ==
  /\ ~Online
  /\ k \in DOMAIN items
  /\ pendingWrites = {}
  /\ LET taskId == items[k].id IN
       /\ taskId \in DOMAIN items
       /\ nextOp < MaxOps
       /\ items' = deleteTaskLocal(items, taskId)
       /\ queue' = enqueueSyncOperation(queue,
                      [id |-> nextOp + 1, taskId |-> taskId, operation |-> "DELETE",
                       payload |-> EmptyPayload, retryCount |-> 0, lastError |-> "none"])
  /\ pendingWrites' = {[key |-> "tasks", value |-> items'],
                       [key |-> "sync_queue", value |-> queue']}
  /\ nextOp' = nextOp + 1
  /\ UNCHANGED <<intent, netVars, syncInProgressMap, drains, returned, storedTasks,
                 storedQueue, nextLocal, nextServer, invocations, histVars>>
  /\ Notify
  /\ UNCHANGED boot

\* A storage.setItem issued by an intent, or the multiSet of persistState,
\* lands or fails (persistState catches and logs the failure).  The thunk that
\* awaited setItems settles, dispatching its fulfilled or rejected action, when
\* the last of them has landed or one has failed.
WriteLands(w, outcome) ==
  /\ w \in pendingWrites
  /\ pendingWrites' = pendingWrites \ {w}
  /\ storedTasks' = CASE outcome = "ok" /\ w.key = "tasks" -> w.value
                      [] outcome = "ok" /\ w.key = "state" -> w.value[1]
                      [] OTHER -> storedTasks
  /\ storedQueue' = CASE outcome = "ok" /\ w.key = "sync_queue" -> w.value
                      [] outcome = "ok" /\ w.key = "state" -> w.value[2]
                      [] OTHER -> storedQueue
  /\ UNCHANGED <<intent, items, queue, netVars, syncInProgressMap, drains, returned,
                 idVars, invocations, histVars>>
  /\ IF w.key # "state" /\ (outcome = "fail" \/ {v \in pendingWrites' : v.key # "state"} = {})
       THEN Notify
       ELSE UNCHANGED persistTimeout
  /\ UNCHANGED boot

\* updateTask rejected: rejectWithValue before anything is built; unwrap()
\* throws in EditTaskScreen, which dispatches nothing.
UpdateTaskRejected(id) ==
  /\ EditRejection(items, id) # ""
  /\ returned' = [NoReturn EXCEPT !.thunk = "sync/updateTask", !.outcome = "rejected",
                                  !.error = EditRejection(items, id)]
  /\ UNCHANGED <<intent, items, queue, netVars, syncInProgressMap, drains, storeVars,
                 idVars, invocations, histVars>>
  /\ Notify
  /\ UNCHANGED boot

\* What a createTask / deleteTask thunk gave its caller.
IntentReturn(thunk, outcome, err) ==
  [NoReturn EXCEPT !.thunk = thunk, !.outcome = outcome, !.error = err]

\* createTask while online: the thunk awaits api.createTask.
CreateTaskOnline(f) ==
  /\ Online
  /\ intent = NoIntent
  /\ \A d \in DrainIds : drains[d].pc = "idle"
  /\ nextServer < MaxTasks
  /\ Cardinality(DOMAIN items) < MaxTasks
  /\ intent' = [NoIntent EXCEPT !.kind = "create", !.pc = "call", !.fields = f]
  /\ UNCHANGED <<items, queue, netVars, syncInProgressMap, drains, returned,
                 storeVars, idVars, invocations, histVars>>
  /\ Notify
  /\ UNCHANGED boot

\* deleteTask(task.id) while online on a record that is in the store: the thunk
\* awaits api.deleteTask.
DeleteTaskOnline(k) ==
  /\ Online
  /\ intent = NoIntent
  /\ \A d \in DrainIds : drains[d].pc = "idle"
  /\ k \in DOMAIN items
  /\ items[k].id \in DOMAIN items
  /\ intent' = [NoIntent EXCEPT !.kind = "delete", !.pc = "call", !.taskId = items[k].id]
  /\ UNCHANGED <<items, queue, netVars, syncInProgressMap, drains, returned,
                 storeVars, idVars, invocations, histVars>>
  /\ Notify
  /\ UNCHANGED boot

\* The remote store has answered the awaited call of the thunk.
RemoteAnswers(outcome) ==
  /\ intent.pc = "call"
  /\ intent' = [intent EXCEPT !.pc = "answered", !.answer = outcome]
  /\ UNCHANGED <<items, queue, netVars, syncInProgressMap, drains, returned,
                 storeVars, idVars, invocations, histVars>>
  /\ UNCHANGED persistTimeout
  /\ UNCHANGED boot

\* The implementations the services index can export as api.
Gateways == {"firebaseAPI", "restAPI"}

\* What a call can meet at the remote side.
RemoteConditions ==
  {"ok", "unauthenticated", "badRequest", "serverError", "timeout", "connectionLost"}

\* response.status of the REST backend for a condition it answers.
HttpStatus(cond) ==
  CASE cond = "badRequest" -> 400
    [] cond = "unauthenticated" -> 401
    [] OTHER -> 500

\* firebaseAPI.createTask / deleteTask: getCurrentUserId throws
\* APIError(401, 'User not authenticated', true) when no user is signed in; the
\* catch block rethrows an APIError and wraps whatever Firestore rejected with
\* as APIError(500, ..., true).
firebaseAPI(cond) ==
  CASE cond = "ok" -> {NoError}
    [] cond = "unauthenticated" -> {APIError(401, TRUE)}
    [] OTHER -> {APIError(500, TRUE)}

\* restAPI.createTask / deleteTask: a response that is not ok throws
\* APIError(status, ..., status >= 500); an aborted fetch becomes
\* APIError(0, 'Request timeout', true) when it is a TypeError naming AbortError
\* and is rethrown as it is otherwise, like every other error of fetch.
restAPI(cond) ==
  CASE cond = "ok" -> {NoError}
    [] cond = "timeout" -> {APIError(0, TRUE), OtherError}
    [] cond = "connectionLost" -> {OtherError}
    [] OTHER -> {APIError(HttpStatus(cond), HttpStatus(cond) >= 500)}

Throws(gateway, cond) == IF gateway = "firebaseAPI" THEN firebaseAPI(cond) ELSE restAPI(cond)

\* What the awaiting code makes of the settled call:
\* error instanceof APIError ? error.retryable : true
Outcome(error) ==
  CASE error.kind = "none" -> "ok"
    [] error.kind = "APIError" /\ ~error.retryable -> "permanent"
    [] OTHER -> "retryable"

\* The awaited call of the thunk settles with what the gateway returns or throws.
GatewayAnswers(gateway, cond) ==
  /\ intent.pc = "call"
  /\ \E e \in Throws(gateway, cond) :
       intent' = [intent EXCEPT !.pc = "answered", !.answer = Outcome(e),
                                !.gateway = gateway, !.cond = cond, !.error = e]
  /\ UNCHANGED <<items, queue, netVars, syncInProgressMap, drains, returned,
                 storeVars, idVars, invocations, histVars>>
  /\ UNCHANGED persistTimeout
  /\ UNCHANGED boot

\* createTask resumes after await api.createTask; CreateTaskScreen then
\* dispatches addTaskLocal(result.task) and, if result.syncOp, enqueueSyncOperation.
CreateCallSettles ==
  /\ intent.kind = "create"
  /\ intent.pc = "answered"
  /\ intent' = NoIntent
  /\ CASE intent.answer = "ok" ->
            /\ items' = addTaskLocal(items, [id |-> ServerId(nextServer + 1),
                                             fields |-> intent.fields,
                                             syncStatus |-> "SYNCED"])
            /\ nextServer' = nextServer + 1
            /\ returned' = IntentReturn("sync/createTask", "fulfilled", "")
            /\ UNCHANGED <<queue, nextLocal, nextOp>>
       [] ~IsRetryable(intent.answer) ->
            /\ returned' = IntentReturn("sync/createTask", "rejected", intent.answer)
            /\ UNCHANGED <<items, queue, idVars>>
       [] OTHER ->
            /\ nextLocal < MaxTasks
            /\ nextOp < MaxOps
            /\ LET taskId == LocalId(nextLocal + 1) IN
                 /\ items' = addTaskLocal(items, [id |-> taskId, fields |-> intent.fields,
                                                  syncStatus |-> "PENDING"])
                 /\ queue' = enqueueSyncOperation(queue,
                                [id |-> nextOp + 1, taskId |-> taskId,
                                 operation |-> "CREATE", payload |-> intent.fields,
                                 retryCount |-> 0, lastError |-> "none"])
            /\ nextLocal' = nextLocal + 1
            /\ nextOp' = nextOp + 1
            /\ returned' = IntentReturn("sync/createTask", "fulfilled", "")
            /\ UNCHANGED nextServer
  /\ UNCHANGED <<netVars, syncInProgressMap, drains, storeVars, invocations, histVars>>
  /\ Notify
  /\ UNCHANGED boot

\* deleteTask from "Delete locally first" on: deleteTaskLocal, enqueue a DELETE,
\* then Promise.all([saveTasks(items), saveSyncQueue(queue)]).
DeleteFallsBackOffline ==
  /\ nextOp < MaxOps
  /\ pendingWrites = {}
  /\ items' = deleteTaskLocal(items, intent.taskId)
  /\ queue' = enqueueSyncOperation(queue,
                 [id |-> nextOp + 1, taskId |-> intent.taskId, operation |-> "DELETE",
                  payload |-> EmptyPayload, retryCount |-> 0, lastError |-> "none"])
  /\ pendingWrites' = {[key |-> "tasks", value |-> items'],
                       [key |-> "sync_queue", value |-> queue']}
  /\ nextOp' = nextOp + 1
  /\ intent' = NoIntent
  /\ returned' = IntentReturn("sync/deleteTask", "fulfilled", "")
  /\ UNCHANGED <<storedTasks, storedQueue>>

\* deleteTask resumes after await api.deleteTask.
DeleteCallSettles ==
  /\ intent.kind = "delete"
  /\ intent.pc = "answered"
  /\ CASE intent.answer = "ok" ->
            /\ items' = deleteTaskLocal(items, intent.taskId)
            /\ intent' = [intent EXCEPT !.pc = "save", !.writing = items']
            /\ UNCHANGED <<queue, returned, storeVars, nextOp>>
       [] ~IsRetryable(intent.answer) ->
            /\ intent' = NoIntent
            /\ returned' = IntentReturn("sync/deleteTask", "rejected", intent.answer)
            /\ UNCHANGED <<items, queue, storeVars, nextOp>>
       [] OTHER -> DeleteFallsBackOffline
  /\ UNCHANGED <<netVars, syncInProgressMap, drains, nextLocal, nextServer,
                 invocations, histVars>>
  /\ Notify
  /\ UNCHANGED boot

\* The online path's await storageService.saveTasks(updatedState.tasks.items)
\* settles; its rejection is caught by the catch block around the remote call,
\* is no APIError, and falls through to the offline path.
DeleteIntentSaveSettles(w) ==
  /\ intent.kind = "delete"
  /\ intent.pc = "save"
  /\ IF w = "ok"
       THEN /\ storedTasks' = intent.writing
            /\ intent' = NoIntent
            /\ returned' = IntentReturn("sync/deleteTask", "fulfilled", "")
            /\ UNCHANGED <<items, queue, storedQueue, pendingWrites, nextOp>>
       ELSE DeleteFallsBackOffline
  /\ UNCHANGED <<netVars, syncInProgressMap, drains, nextLocal, nextServer,
                 invocations, histVars>>
  /\ Notify
  /\ UNCHANGED boot

\* The subscriber's timer fires after 500 ms without a dispatch:
\* persistState(store.getState()).  At most MaxInFlight of its writes are
\* awaited at a time.
PersistTimerFires ==
  /\ persistTimeout > 0
  /\ Cardinality({w \in pendingWrites : w.key = "state"}) < MaxInFlight
  /\ persistTimeout' = persistTimeout - 1
  /\ pendingWrites' = pendingWrites \cup {persistState(items, queue)}
  /\ UNCHANGED <<intent, items, queue, netVars, syncInProgressMap, drains, returned,
                 storedTasks, storedQueue, idVars, invocations, histVars>>
  /\ UNCHANGED boot

\* ------------------------------------------------------------------ startup
\* setTasks: state.items = {}; every task of the payload is stored under task.id.
setTasks(tasks) ==
  [id \in {tasks[k].id : k \in DOMAIN tasks} |->
     CHOOSE t \in {tasks[k] : k \in DOMAIN tasks} : t.id = id]

\* What api.fetchTasks can return: documents of the user's collection (at most
\* MaxRemote of them), each under its document id and SYNCED.
FetchResults ==
  {[id \in S |-> [id |-> id, fields |-> f, syncStatus |-> "SYNCED"]] :
     S \in SUBSET {ServerId(n) : n \in 1..MaxRemote}, f \in NewTaskFields}

\* The app is started again at a quiet moment, with what storage holds.
\* App.hydrateStore dispatches setTasks and restoreSyncQueue before anything is
\* rendered; RootNavigator then mounts: useSyncOnNetworkRestore's effect
\* invokes processSyncQueue (networkSlice's initialState is online) and
\* bootstrapApp is dispatched.
Restart(cap) ==
  /\ boot.pc = "done"
  /\ intent = NoIntent
  /\ pendingWrites = {}
  /\ \A d \in DrainIds : drains[d].pc = "idle"
  /\ invocations < cap
  /\ invocations' = invocations + 1
  /\ isConnected' = TRUE
  /\ isInternetReachable' = "null"
  /\ prevConnectionRef' = TRUE
  /\ Commit(1, processSyncQueue([Cur(1) EXCEPT !.items = setTasks(storedTasks),
                                               !.queue = storedQueue,
                                               !.map = {},
                                               !.dr = IdleDrain],
                                TRUE, "null"))
  /\ boot' = [NoBoot EXCEPT !.pc = "read"]
  /\ persistTimeout' = 1
  /\ UNCHANGED <<intent, storeVars, nextLocal, nextOp>>

\* bootstrapApp: await authReady and the Promise.all of storageService.getTasks
\* and getSyncQueue have settled; api.fetchTasks is called.
BootReads ==
  /\ boot.pc = "read"
  /\ boot' = [boot EXCEPT !.pc = "fetch", !.local = storedTasks]
  /\ UNCHANGED <<items, queue, netVars, syncInProgressMap, drains, returned, storeVars,
                 idVars, invocations, histVars, intent, persistTimeout>>

\* bootstrapApp.fulfilled in tasksSlice: state.items = action.payload.tasks
\* (no reducer takes action.payload.syncQueue).
BootFulfilled(tasks) ==
  /\ items' = tasks
  /\ boot' = NoBoot
  /\ Notify

\* await api.fetchTasks() settles: the fetched documents are handed to
\* storageService.saveTasks, or the catch block returns the tasks read from
\* storage.
BootFetchSettles(outcome, fetched) ==
  /\ boot.pc = "fetch"
  /\ IF outcome = "ok"
       THEN /\ boot' = [boot EXCEPT !.pc = "save", !.fetched = fetched]
            /\ UNCHANGED <<items, persistTimeout>>
       ELSE BootFulfilled(boot.local)
  /\ UNCHANGED <<queue, netVars, syncInProgressMap, drains, returned, storeVars,
                 idVars, invocations, histVars, intent>>

\* await storageService.saveTasks(firebaseTasksMap) settles; its rejection is
\* caught by the same catch block as a failed fetch.
BootSaveSettles(w) ==
  /\ boot.pc = "save"
  /\ IF w = "ok"
       THEN /\ storedTasks' = boot.fetched
            /\ BootFulfilled(boot.fetched)
       ELSE /\ storedTasks' = storedTasks
            /\ BootFulfilled(boot.local)
  /\ UNCHANGED <<queue, netVars, syncInProgressMap, drains, returned, storedQueue,
                 pendingWrites, idVars, invocations, histVars, intent>>

\* ------------------------------------------------ processSyncQueue, resumed
\* setTimeout(resolve, BACKOFF_DELAY) fires: the switch issues the remote call.
BackoffElapsed(d) ==
  /\ drains[d].pc = "backoff"
  /\ drains' = [drains EXCEPT ![d].pc = "call"]
  /\ UNCHANGED <<intent, items, queue, netVars, syncInProgressMap, returned, storeVars,
                 idVars, invocations, histVars>>
  /\ UNCHANGED persistTimeout
  /\ UNCHANGED boot

\* The id the remote call of an UPDATE or DELETE operation names:
\* api.updateTask(operation.taskId, ...), api.deleteTask(operation.taskId).
CallTarget(op) == op.taskId

\* A remote store that answers a create with the id the client sent.
ServerAnswerEcho(st, op) == ServerData(op.taskId, op.payload)

\* What the remote store returns for the operation when its call succeeds:
\* createTask answers with the new document's id, updateTask with the id it
\* was called with; both carry the payload's fields.
ServerAnswer(st, op) ==
  IF op.operation = "CREATE"
    THEN ServerData(ServerId(st.nextServer + 1), op.payload)
    ELSE ServerData(op.taskId, op.payload)

\* case 'CREATE' / case 'UPDATE' after the awaited call returned, up to the end
\* of the try block.
OnSynced(st, op) ==
  [st EXCEPT !.items = updateSyncStatus(@, op.taskId, "SYNCED", ServerAnswer(st, op)),
             !.queue = removeSyncOperation(@, op.id),
             !.nextServer = IF op.operation = "CREATE" THEN @ + 1 ELSE @,
             !.applied[op.id] = Bump(@),
             !.dr.results = Append(@, Result(op, TRUE, "")),
             !.dr.successCount = @ + 1]

\* case 'DELETE' after the awaited call returned, up to await saveTasks(...).
OnDeleted(st, op) ==
  [st EXCEPT !.items = deleteTaskLocal(@, op.taskId),
             !.queue = removeSyncOperation(@, op.id),
             !.applied[op.id] = Bump(@),
             !.dr.pc = "delSave",
             !.dr.writing = deleteTaskLocal(st.items, op.taskId)]

\* The catch block.
OnError(st, op, isRetryable, err) ==
  IF ShouldRetry(isRetryable, op)
    THEN [st EXCEPT !.queue = updateSyncOperation(@, op.id, op.retryCount + 1),
                    !.dr.results = Append(@, Result(op, FALSE, err))]
    ELSE [st EXCEPT !.items = updateSyncStatus(@, op.taskId, "FAILED", NoServerData),
                    !.dr.results = Append(@, Result(op, FALSE, err)),
                    !.dr.failureCount = @ + 1]

\* The awaited api.createTask / api.updateTask / api.deleteTask settles.
CallSettles(d, outcome) ==
  /\ drains[d].pc = "call"
  /\ LET st == Cur(d)
         op == st.dr.snapQueue[st.dr.idx]
     IN IF outcome = "ok"
          THEN IF op.operation = "DELETE"
                 THEN Commit(d, OnDeleted(st, op))
                 ELSE Commit(d, NextEntry(OnSynced(st, op)))
          ELSE Commit(d, NextEntry(
                 OnError([st EXCEPT !.permFailed =
                            IF IsRetryable(outcome) THEN @ ELSE @ \cup {op.id}],
                         op, IsRetryable(outcome), outcome)))
  /\ UNCHANGED <<intent, netVars, storeVars, genVars>>
  /\ Notify
  /\ UNCHANGED boot

\* The DELETE case's await storageService.saveTasks(updatedState.tasks.items)
\* settles; a rejection is caught by the same catch block as a remote failure.
DeleteSaveSettles(d, w) ==
  /\ drains[d].pc = "delSave"
  /\ LET st == Cur(d)
         op == st.dr.snapQueue[st.dr.idx]
         cleared == [st EXCEPT !.dr.writing = EmptyItems]
     IN IF w = "ok"
          THEN /\ storedTasks' = st.dr.writing
               /\ Commit(d, NextEntry([cleared EXCEPT
                                !.dr.results = Append(@, Result(op, TRUE, "")),
                                !.dr.successCount = @ + 1]))
          ELSE /\ storedTasks' = storedTasks
               /\ Commit(d, NextEntry(OnError(cleared, op, TRUE, "storage")))
  /\ UNCHANGED <<intent, netVars, storedQueue, pendingWrites, genVars>>
  /\ IF w = "fail" \/ drains'[d].failureCount > drains[d].failureCount
       THEN Notify
       ELSE UNCHANGED persistTimeout
  /\ UNCHANGED boot

\* await storageService.saveTasks(state.tasks.items) settles; state is the
\* value getState() returned on the thunk's first line.
SaveTasksSettles(d, w) ==
  /\ drains[d].pc = "saveTasks"
  /\ IF w = "ok"
       THEN /\ storedTasks' = drains[d].snapItems
            /\ drains' = [drains EXCEPT ![d].pc = "saveQueue"]
            /\ returned' = returned
       ELSE /\ storedTasks' = storedTasks
            /\ drains' = [drains EXCEPT ![d] = IdleDrain]
            /\ returned' = [NoReturn EXCEPT !.outcome = "rejected", !.error = "storage"]
  /\ UNCHANGED <<intent, items, queue, netVars, syncInProgressMap, storedQueue,
                 pendingWrites, idVars, invocations, histVars>>
  /\ IF w = "fail" THEN Notify ELSE UNCHANGED persistTimeout
  /\ UNCHANGED boot

\* await storageService.saveSyncQueue(state.sync.queue) settles; then
\* return { successCount, failureCount, results }.
SaveQueueSettles(d, w) ==
  /\ drains[d].pc = "saveQueue"
  /\ IF w = "ok"
       THEN /\ storedQueue' = drains[d].snapQueue
            /\ returned' = [NoReturn EXCEPT !.outcome = "fulfilled",
                                            !.successCount = drains[d].successCount,
                                            !.failureCount = drains[d].failureCount]
       ELSE /\ storedQueue' = storedQueue
            /\ returned' = [NoReturn EXCEPT !.outcome = "rejected", !.error = "storage"]
  /\ drains' = [drains EXCEPT ![d] = IdleDrain]
  /\ UNCHANGED <<intent, items, queue, netVars, syncInProgressMap, storedTasks,
                 pendingWrites, idVars, invocations, histVars>>
  /\ Notify
  /\ UNCHANGED boot

\* ------------------------------------------------------------ specification
\* What the user, the network and the gateway can do whatever the drains do.
Environment ==
  \/ \E o \in OpIds : retryFailedOperation(o)
  \/ \E f \in NewTaskFields : CreateTaskOffline(f)
  \/ \E k \in DOMAIN items, f \in Fields : UpdateTask(k, f)
  \/ \E k \in DOMAIN items : DeleteTaskOffline(k)
  \/ \E w \in pendingWrites, o \in WriteOutcomes : WriteLands(w, o)

Resume(slots) ==
  \/ \E d \in slots : BackoffElapsed(d)
  \/ \E d \in slots, o \in RemoteOutcomes : CallSettles(d, o)
  \/ \E d \in slots, w \in WriteOutcomes : DeleteSaveSettles(d, w)
  \/ \E d \in slots, w \in WriteOutcomes : SaveTasksSettles(d, w)
  \/ \E d \in slots, w \in WriteOutcomes : SaveQueueSettles(d, w)

\* Invocations may overlap: up to MaxDrains at a time, MaxRuns in all.
Next ==
  \/ \E c \in BOOLEAN, r \in Reachability : NetworkChange(c, r, DrainIds, MaxRuns)
  \/ \E d \in DrainIds : handleRetrySync(d, MaxRuns)
  \/ Environment
  \/ Resume(DrainIds)

Spec == Init /\ [][Next]_vars

\* Invocations one after the other: a trigger waits until the running one ended.
NextSeq ==
  \/ \E c \in BOOLEAN, r \in Reachability : NetworkChange(c, r, {1}, MaxSeqRuns)
  \/ handleRetrySync(1, MaxSeqRuns)
  \/ Environment
  \/ Resume({1})

SpecSeq == Init /\ [][NextSeq]_vars

\* The thunks of the screens that await the remote store or the storage.
Intents ==
  \/ \E f \in NewTaskFields : CreateTaskOnline(f)
  \/ \E k \in DOMAIN items : DeleteTaskOnline(k)
  \/ \E o \in RemoteOutcomes : RemoteAnswers(o)
  \/ CreateCallSettles
  \/ DeleteCallSettles
  \/ \E w \in WriteOutcomes : DeleteIntentSaveSettles(w)
  \/ \E id \in TaskIds : UpdateTaskRejected(id)

\* The thunks that await, beside at most MaxIntentRuns invocations in slot 1 on
\* queues that have not failed before.  One thing at a time: a thunk starts
\* while no invocation is running, and connectivity changes while no thunk is
\* awaiting.
NextIntents ==
  \/ \E c \in BOOLEAN, r \in Reachability :
       intent = NoIntent /\ NetworkChange(c, r, {1}, MaxIntentRuns)
  \/ \E f \in NewTaskFields : CreateTaskOffline(f)
  \/ \E k \in DOMAIN items, f \in Fields : UpdateTask(k, f)
  \/ \E k \in DOMAIN items : DeleteTaskOffline(k)
  \/ \E w \in pendingWrites, o \in WriteOutcomes : WriteLands(w, o)
  \/ \E o \in RemoteOutcomes : CallSettles(1, o)
  \/ \E w \in WriteOutcomes : DeleteSaveSettles(1, w)
  \/ \E w \in WriteOutcomes : SaveTasksSettles(1, w)
  \/ \E w \in WriteOutcomes : SaveQueueSettles(1, w)
  \/ Intents

SpecIntents == Init /\ [][NextIntents]_vars

\* The thunks with their remote calls answered by either gateway implementation.
NextGateway ==
  \/ \E c \in BOOLEAN, r \in Reachability :
       intent = NoIntent /\ NetworkChange(c, r, {1}, MaxIntentRuns)
  \/ \E f \in NewTaskFields : CreateTaskOffline(f)
  \/ \E k \in DOMAIN items, f \in Fields : UpdateTask(k, f)
  \/ \E k \in DOMAIN items : DeleteTaskOffline(k)
  \/ \E w \in pendingWrites, o \in WriteOutcomes : WriteLands(w, o)
  \/ \E o \in RemoteOutcomes : CallSettles(1, o)
  \/ \E w \in WriteOutcomes : DeleteSaveSettles(1, w)
  \/ \E w \in WriteOutcomes : SaveTasksSettles(1, w)
  \/ \E w \in WriteOutcomes : SaveQueueSettles(1, w)
  \/ \E f \in NewTaskFields : CreateTaskOnline(f)
  \/ \E k \in DOMAIN items : DeleteTaskOnline(k)
  \/ \E g \in Gateways, c \in RemoteConditions : GatewayAnswers(g, c)
  \/ CreateCallSettles
  \/ DeleteCallSettles
  \/ \E w \in WriteOutcomes : DeleteIntentSaveSettles(w)

SpecGateway == Init /\ [][NextGateway]_vars

\* The store's subscriber and its debounced writes, beside the offline intents
\* and at most MaxPersistRuns invocations in slot 1.
NextPersist ==
  \/ \E c \in BOOLEAN, r \in Reachability : NetworkChange(c, r, {1}, MaxPersistRuns)
  \/ \E f \in NewTaskFields : CreateTaskOffline(f)
  \/ \E k \in DOMAIN items, f \in Fields : UpdateTask(k, f)
  \/ \E k \in DOMAIN items : DeleteTaskOffline(k)
  \/ \E w \in pendingWrites, o \in WriteOutcomes : WriteLands(w, o)
  \/ PersistTimerFires
  \/ \E o \in RemoteOutcomes : CallSettles(1, o)
  \/ \E w \in WriteOutcomes : DeleteSaveSettles(1, w)
  \/ \E w \in WriteOutcomes : SaveTasksSettles(1, w)
  \/ \E w \in WriteOutcomes : SaveQueueSettles(1, w)

SpecPersist == Init /\ [][NextPersist]_vars

\* Invocations one after the other, at most MaxLiveRuns of them, in which
\* whatever a running invocation awaits settles in the end: the backoff timer
\* fires, the remote call returns or fails, the storage write returns or fails.
\* Connectivity changes and what the user does are under no such obligation.
NextLive ==
  \/ \E c \in BOOLEAN, r \in Reachability : NetworkChange(c, r, {1}, MaxLiveRuns)
  \/ handleRetrySync(1, MaxLiveRuns)
  \/ \E f \in NewTaskFields : CreateTaskOffline(f)
  \/ \E k \in DOMAIN items, f \in Fields : UpdateTask(k, f)
  \/ \E k \in DOMAIN items : DeleteTaskOffline(k)
  \/ \E w \in pendingWrites, o \in WriteOutcomes : WriteLands(w, o)
  \/ Resume({1})

SpecLive == Init /\ [][NextLive]_vars /\ WF_vars(Resume({1}))

\* Overlapping invocations of records created offline, MaxOverlapRuns in all:
\* connectivity is lost and restored while an invocation awaits its call.
NextOverlap ==
  \/ \E c \in BOOLEAN, r \in Reachability : NetworkChange(c, r, DrainIds, MaxOverlapRuns)
  \/ \E f \in NewTaskFields : CreateTaskOffline(f)
  \/ \E d \in DrainIds : BackoffElapsed(d)
  \/ \E d \in DrainIds, o \in RemoteOutcomes : CallSettles(d, o)
  \/ \E d \in DrainIds, w \in WriteOutcomes : SaveTasksSettles(d, w)
  \/ \E d \in DrainIds, w \in WriteOutcomes : SaveQueueSettles(d, w)

SpecOverlap == Init /\ [][NextOverlap]_vars

\* The app started again, at most MaxBootRuns invocations counted over all
\* sessions, with the debounced writes that make a session's state durable.
NextBoot ==
  \/ \E c \in BOOLEAN, r \in Reachability : NetworkChange(c, r, {1}, MaxBootRuns)
  \/ \E f \in NewTaskFields : CreateTaskOffline(f)
  \/ \E w \in pendingWrites, o \in WriteOutcomes : WriteLands(w, o)
  \/ PersistTimerFires
  \/ Restart(MaxBootRuns)
  \/ BootReads
  \/ \E o \in WriteOutcomes, m \in FetchResults : BootFetchSettles(o, m)
  \/ \E w \in WriteOutcomes : BootSaveSettles(w)
  \/ \E o \in RemoteOutcomes : CallSettles(1, o)
  \/ \E w \in WriteOutcomes : SaveTasksSettles(1, w)
  \/ \E w \in WriteOutcomes : SaveQueueSettles(1, w)

SpecBoot == Init /\ [][NextBoot]_vars

\* ------------------------------------------------------------------- claims
\* The snapshot entry drain d is working on.
CurOp(d) == drains[d].snapQueue[drains[d].idx]

\* Drain d has a remote call in flight / holds the lane of its current entry.
InCall(d) == drains[d].pc = "call"
HoldsLane(d) == drains[d].pc \in {"backoff", "call", "delSave"}

\* A queued CREATE that has neither succeeded (it would be dequeued) nor ended
\* in a terminal failure (a non-retryable error, or the retry budget used up).
UnresolvedCreate(c) ==
  /\ c.operation = "CREATE"
  /\ c.id \notin permFailed
  /\ c.retryCount < MAX_RETRIES

\* C1: for a record with a CREATE queued ahead of an UPDATE, the UPDATE's remote
\* call is never in flight while the CREATE is still queued and unresolved.
C1_UpdateAfterCreateResolved ==
  \A d \in DrainIds :
    (InCall(d) /\ CurOp(d).operation = "UPDATE") =>
      ~ \E i \in 1..Len(queue) :
          /\ UnresolvedCreate(queue[i])
          /\ queue[i].taskId = CurOp(d).taskId
          /\ queue[i].id < CurOp(d).id

\* C2: two drains never hold the lane of the same taskId at once (so at most one
\* remote call per record is in flight), and a held lane is registered in the map.
C2_OneCallPerRecord ==
  \A d \in DrainIds :
    HoldsLane(d) =>
      /\ CurOp(d).taskId \in syncInProgressMap
      /\ \A e \in DrainIds \ {d} :
           HoldsLane(e) => CurOp(e).taskId # CurOp(d).taskId

\* C2 witness: drain d has a call in flight for a record while drain e has passed
\* an entry of that record without producing a result for it, and has a call
\* of its own in flight for another record.
C2_SkippedBusyLane ==
  \E d, e \in DrainIds :
    /\ d # e /\ InCall(d) /\ InCall(e)
    /\ \E i \in 1..(drains[e].idx - 1) :
         /\ drains[e].snapQueue[i].taskId = CurOp(d).taskId
         /\ \A j \in 1..Len(drains[e].results) :
              drains[e].results[j].opId # drains[e].snapQueue[i].id

\* C3: at no time are two drains both running.
C3_SingleDrainRunning ==
  Cardinality({d \in DrainIds : drains[d].pc # "idle"}) <= 1

\* C4: no operation is successfully applied more than once, and no remote call
\* is issued for an operation that has already succeeded and left the queue.
C4_AppliedAtMostOnce ==
  /\ \A o \in OpIds : applied[o] <= 1
  /\ \A d \in DrainIds :
       (drains[d].pc \in {"backoff", "call"}) => applied[CurOp(d).id] = 0

OpAt(dr) == dr.snapQueue[dr.idx]
SnapOp(dr, opId) == CHOOSE o \in {dr.snapQueue[i] : i \in 1..Len(dr.snapQueue)} : o.id = opId

\* Positions of the result entries a step appended to a drain's results.
NewResults(old, new) == (Len(old.results) + 1)..Len(new.results)

\* The operation's retryCount is at or above MAX_RETRIES.
BudgetSpent(op) == op.retryCount >= MAX_RETRIES

\* What one step of drain d does about operations at or above MAX_RETRIES:
\* none of them is being called or waited for; each such entry the drain has
\* passed has a "Max retries exceeded" result; and for every such result the
\* step appended, the operation is still queued with the retryCount the drain
\* saw, its record is FAILED (if mustExist, the record also has to be there),
\* and the failed count grew by one for each failure the step counted.
ShortcutStep(old, new, its, q, mustExist) ==
  /\ new.pc \in {"backoff", "call", "delSave"} => ~BudgetSpent(OpAt(new))
  /\ new.pc # "idle" =>
       \A i \in 1..Len(new.snapQueue) :
         (i < new.idx /\ BudgetSpent(new.snapQueue[i])) =>
           \E j \in 1..Len(new.results) :
             /\ new.results[j].opId = new.snapQueue[i].id
             /\ new.results[j].error = "Max retries exceeded"
  /\ \A j \in NewResults(old, new) :
       new.results[j].error = "Max retries exceeded" =>
         LET op == SnapOp(new, new.results[j].opId) IN
           /\ BudgetSpent(op)
           /\ \E k \in 1..Len(q) : q[k] = op
           /\ mustExist => op.taskId \in DOMAIN its
           /\ op.taskId \in DOMAIN its => its[op.taskId].syncStatus = "FAILED"
  /\ (new.pc # "idle" /\ Len(new.results) > Len(old.results)) =>
       new.failureCount = old.failureCount +
         Cardinality({j \in NewResults(old, new) :
                        new.results[j].error \in {"Max retries exceeded", "permanent"}})

C7_RetryResetsAndDrains ==
  [][\A o \in OpIds :
       (returned' = RetryReturn(o) /\ returned' # returned) =>
         /\ \E i \in 1..Len(queue') : queue'[i].id = o /\ queue'[i].retryCount = 0
         /\ invocations' = invocations + 1]_vars

\* C8: a step in which an operation's call fails non-retryably leaves its
\* retryCount as it was and its record (if still stored) FAILED, and no drain
\* ever waits for or issues a remote call for an operation that has failed
\* non-retryably.
C8_PermanentFailureIsFinal ==
  [][/\ \A o \in permFailed' \ permFailed :
          \A i \in 1..Len(queue) :
            queue[i].id = o =>
              /\ \A k \in 1..Len(queue') :
                   queue'[k].id = o => queue'[k].retryCount = queue[i].retryCount
              /\ queue[i].taskId \in DOMAIN items' =>
                   items'[queue[i].taskId].syncStatus = "FAILED"
     /\ \A d \in DrainIds :
          drains'[d].pc \in {"backoff", "call"} => OpAt(drains'[d]).id \notin permFailed'
    ]_vars

\* C9: when a drain's loop has ended and an UPDATE failed non-retryably in it,
\* the record (if still stored) is FAILED, the operation is no longer queued,
\* and the drain's failed count is the number of operations it gave up on.
C9_PermanentUpdateDropped ==
  \A d \in DrainIds :
    drains[d].pc = "saveTasks" =>
      \A j \in 1..Len(drains[d].results) :
        LET r == drains[d].results[j]
            op == SnapOp(drains[d], r.opId)
        IN (r.error = "permanent" /\ op.operation = "UPDATE") =>
             /\ op.taskId \in DOMAIN items => items[op.taskId].syncStatus = "FAILED"
             /\ op.id \notin QueueIds(queue)
             /\ drains[d].failureCount =
                  Cardinality({k \in 1..Len(drains[d].results) :
                     drains[d].results[k].error \in {"Max retries exceeded", "permanent"}})

\* The rejection processSyncQueue gives when it is invoked while not online.
NoConnection == [NoReturn EXCEPT !.outcome = "rejected", !.error = "No internet connection"]

\* The device is not online: isConnected is false, or isInternetReachable is
\* false.
Offline == ~isConnected \/ isInternetReachable = "false"

\* C10: whenever the device is not online, an invocation of processSyncQueue is
\* rejected with 'No internet connection' and starts nothing (no remote call,
\* no wait, no persistence write) and changes neither the queue nor the record
\* store; and every step that does invoke it while not online changes nothing
\* but the value returned to the caller.
C10_OfflineDrainRejected ==
  [][/\ Offline' =>
          \A d \in DrainIds :
            LET st == processSyncQueue(Cur(d)', isConnected', isInternetReachable')
            IN /\ st.returned = NoConnection
               /\ st.dr = IdleDrain
               /\ st.items = items' /\ st.queue = queue' /\ st.map = syncInProgressMap'
     /\ (invocations' # invocations /\ Offline') =>
          /\ returned' = NoConnection
          /\ UNCHANGED <<items, queue, syncInProgressMap, drains, storedTasks,
                         storedQueue, pendingWrites, applied>>
    ]_vars

\* C10 witness: processSyncQueue has just been rejected for lack of connection
\* while operations are queued.
C10_RejectedOffline ==
  /\ Offline
  /\ returned = NoConnection
  /\ Len(queue) > 0

\* What processSyncQueue returns for an empty queue.
EmptyResult == [NoReturn EXCEPT !.outcome = "fulfilled"]

\* C11: a step that invokes processSyncQueue while online on an empty queue
\* returns {successCount: 0, failureCount: 0} at once and changes neither the
\* record store, the queue, the lane map nor any drain; invoking it again in
\* the state it left gives the same result and the same state.
C11_EmptyDrainIsNoop ==
  [][(invocations' # invocations /\ ~Offline' /\ Len(queue) = 0) =>
       /\ returned' = EmptyResult
       /\ returned'.successCount = 0 /\ returned'.failureCount = 0
       /\ UNCHANGED <<items, queue, syncInProgressMap, drains, storedTasks,
                      storedQueue, pendingWrites>>
       /\ \A d \in DrainIds :
            drains'[d].pc = "idle" =>
              processSyncQueue(Cur(d)', isConnected', isInternetReachable') = Cur(d)'
    ]_vars

\* C11 witness: processSyncQueue has been invoked twice with nothing ever
\* queued, and the last invocation returned {0, 0}.
C11_EmptyDrainedTwice ==
  /\ invocations = 2
  /\ nextOp = 0
  /\ ~Offline
  /\ returned = EmptyResult
  /\ items = EmptyItems /\ queue = <<>> /\ syncInProgressMap = {}

\* C12: a drain that waits before an operation's call waits for an operation
\* with retryCount k >= 1, and for exactly 1000 * 2^k milliseconds; a call
\* for an operation with retryCount 0 was preceded by no wait, one for an
\* operation with retryCount k >= 1 by that wait; the wait is non-decreasing
\* in k.
C12_BackoffSchedule ==
  /\ \A d \in DrainIds :
       drains[d].pc \in {"backoff", "call"} =>
         LET k == CurOp(d).retryCount IN
           /\ drains[d].pc = "backoff" => k >= 1
           /\ drains[d].delay = IF k = 0 THEN 0 ELSE 1000 * (2 ^ k)
  /\ \A j, k \in 1..MAX_RETRIES :
       j <= k => BackoffDelay([retryCount |-> j]) <= BackoffDelay([retryCount |-> k])

\* C12 witness: a drain is waiting 4000 ms before the call of an operation
\* whose retryCount is 2.
C12_WaitingFourSeconds ==
  \E d \in DrainIds :
    /\ drains[d].pc = "backoff"
    /\ CurOp(d).retryCount = 2
    /\ drains[d].delay = 4000

\* The ids of the operations a drain record has results for, in order.
ResultIds(dr) == [j \in 1..Len(dr.results) |-> dr.results[j].opId]

\* The ids of the first n entries of a drain record's snapshot, in order.
SnapIds(dr, n) == [j \in 1..n |-> dr.snapQueue[j].id]

WaitsBefore(d, j) ==
  /\ drains[d].pc = "backoff"
  /\ j > drains[d].idx
  /\ drains[d].snapQueue[j].taskId # CurOp(d).taskId
  /\ drains[d].snapQueue[j].retryCount = 0
  /\ drains[d].snapQueue[j].taskId \notin syncInProgressMap

OnlyCreateInFlight(d) ==
  /\ drains[d].pc = "call"
  /\ Len(drains[d].snapQueue) = 1
  /\ CurOp(d).operation = "CREATE"
  /\ queue = drains[d].snapQueue
  /\ CurOp(d).taskId \in DOMAIN items
  /\ items[CurOp(d).taskId].syncStatus = "PENDING"

\* C16: when the remote create of the only queued operation succeeds, the drain
\* reaches the end of its loop with the record carrying a server-assigned id
\* and syncStatus SYNCED, with the queue empty, and with one success counted.
C16_CreateSyncedOnRestore ==
  [][\A d \in DrainIds :
       (OnlyCreateInFlight(d) /\ drains'[d].successCount > drains[d].successCount) =>
         LET key == CurOp(d).taskId IN
           /\ drains'[d].pc = "saveTasks"
           /\ drains'[d].successCount = 1 /\ drains'[d].failureCount = 0
           /\ key \in DOMAIN items'
           /\ items'[key].id[1] = "S"
           /\ items'[key].id # key
           /\ items'[key].syncStatus = "SYNCED"
           /\ queue' = <<>>
    ]_vars

\* C16 witness: after connectivity came back, a drain over one queued CREATE
\* has ended its loop with one success: the record is SYNCED under a
\* server-assigned id and the queue is empty.
C16_CreatedAndSynced ==
  \E d \in DrainIds : \E k \in DOMAIN items :
    /\ drains[d].pc = "saveTasks"
    /\ Len(drains[d].snapQueue) = 1
    /\ drains[d].snapQueue[1].operation = "CREATE"
    /\ drains[d].snapQueue[1].taskId = k
    /\ drains[d].successCount = 1
    /\ items[k].syncStatus = "SYNCED" /\ items[k].id[1] = "S"
    /\ queue = <<>>
    /\ Online /\ invocations = 1

\* C19: a connectivity observation (a change of isConnected or of
\* isInternetReachable) invokes processSyncQueue exactly once when online
\* (connected, and reachable not false) was false before it and is true after
\* it, and does not invoke it otherwise: not on a change from online to
\* offline, and not on a change that leaves online as it was.
C19_EdgeTriggered ==
  [][(isConnected' # isConnected \/ isInternetReachable' # isInternetReachable) =>
       IF Offline /\ ~Offline'
         THEN invocations' = invocations + 1
         ELSE invocations' = invocations /\ drains' = drains
    ]_vars

\* C19 witness: connectivity came back once, which started the one drain that
\* is still running, and has gone again since without another invocation.
C19_RestoredThenLost ==
  /\ invocations = 1
  /\ Offline
  /\ \E d \in DrainIds : drains[d].pc = "call"

\* C20: when a drain over a non-empty queue ends its loop, the records blob and
\* the queue blob it goes on to write are the record store and the queue as
\* they are at that moment; and what a finished drain has written is what it
\* set out to write.
C20_PersistsStateAtLoopEnd ==
  [][\A d \in DrainIds :
       /\ (drains[d].pc # "saveTasks" /\ drains'[d].pc = "saveTasks") =>
            /\ drains'[d].snapItems = items'
            /\ drains'[d].snapQueue = queue'
       /\ (drains[d].pc = "saveTasks" /\ drains'[d].pc = "saveQueue") =>
            storedTasks' = drains[d].snapItems
       /\ (drains[d].pc = "saveQueue" /\ returned'.outcome = "fulfilled"
             /\ drains'[d].pc = "idle") =>
            storedQueue' = drains[d].snapQueue
    ]_vars

\* The entry a step has appended to the queue, the queue being otherwise as it was.
Enqueued(q, qn) == Len(qn) = Len(q) + 1 /\ SubSeq(qn, 1, Len(q)) = q

\* The store its with exactly the record t added under the key id.
Inserted(its, itsn, id, t) ==
  /\ id \notin DOMAIN its
  /\ DOMAIN itsn = DOMAIN its \cup {id}
  /\ itsn[id] = t
  /\ \A k \in DOMAIN its : itsn[k] = its[k]

C15_OfflineCreate ==
  [][(Offline /\ nextLocal' = nextLocal + 1) =>
       LET id == <<"L", nextLocal'>> IN
         /\ \E f \in Fields :
              /\ Inserted(items, items', id,
                          [id |-> id, fields |-> f, syncStatus |-> "PENDING"])
              /\ Enqueued(queue, queue')
              /\ LET op == queue'[Len(queue')] IN
                   /\ op.operation = "CREATE"
                   /\ op.taskId = id
                   /\ op.payload = f
                   /\ op.retryCount = 0
                   /\ op.id \notin QueueIds(queue)
         /\ drains' = drains
         /\ intent' = intent
         /\ nextServer' = nextServer
    ]_vars

\* Offline, one record created, its CREATE queued, nothing in flight.
C15_CreatedOffline ==
  /\ Offline
  /\ nextLocal = 1
  /\ DOMAIN items = {<<"L", 1>>}
  /\ items[<<"L", 1>>].syncStatus = "PENDING"
  /\ Len(queue) = 1
  /\ queue[1].operation = "CREATE"
  /\ queue[1].retryCount = 0
  /\ \A d \in DrainIds : drains[d].pc = "idle"

\* C17: when createTask, started online, resumes after its remote call: on
\* success the record is inserted SYNCED under the server's id and nothing is
\* enqueued; on a non-retryable failure the thunk rejects and store and queue
\* are unchanged; on a retryable failure one PENDING record under a local id
\* and one CREATE operation for it are added.
C17_OnlineCreateOutcomes ==
  [][(intent.kind = "create" /\ intent.pc = "answered" /\ intent'.kind = "none") =>
       LET f == intent.fields IN
         /\ intent.answer = "ok" =>
              /\ \E id \in TaskIds :
                   /\ id[1] = "S"
                   /\ Inserted(items, items', id,
                               [id |-> id, fields |-> f, syncStatus |-> "SYNCED"])
              /\ queue' = queue
         /\ intent.answer = "permanent" =>
              /\ returned'.thunk = "sync/createTask"
              /\ returned'.outcome = "rejected"
              /\ items' = items
              /\ queue' = queue
         /\ intent.answer = "retryable" =>
              /\ \E id \in TaskIds :
                   /\ id[1] = "L"
                   /\ Inserted(items, items', id,
                               [id |-> id, fields |-> f, syncStatus |-> "PENDING"])
                   /\ Enqueued(queue, queue')
                   /\ LET op == queue'[Len(queue')] IN
                        /\ op.operation = "CREATE"
                        /\ op.taskId = id
                        /\ op.payload = f
                        /\ op.retryCount = 0
    ]_vars

\* createTask has rejected on a non-retryable failure while another record,
\* created online, is in the store as SYNCED.
C17_RejectedAfterSynced ==
  /\ returned.thunk = "sync/createTask"
  /\ returned.outcome = "rejected"
  /\ intent = NoIntent
  /\ \E k \in DOMAIN items : k[1] = "S" /\ items[k].syncStatus = "SYNCED"
  /\ queue = <<>>

\* C18: when deleteTask, started online on a record in the store, ends: if the
\* remote removal succeeded the record is gone and nothing is enqueued; on a
\* non-retryable failure the thunk rejects and record and queue are unchanged;
\* on a retryable failure the record is gone and exactly one DELETE operation
\* for it (retryCount 0) is enqueued.
C18_DeleteOutcomes ==
  [][/\ (intent.kind = "delete" /\ intent.pc = "save" /\ intent'.kind = "none") =>
          /\ intent.taskId \notin DOMAIN items'
          /\ queue' = queue
     /\ (intent.kind = "delete" /\ intent.pc = "answered" /\ intent.answer = "ok"
           /\ intent'.pc = "save") =>
          /\ intent.taskId \notin DOMAIN items'
          /\ queue' = queue
     /\ (intent.kind = "delete" /\ intent.pc = "answered"
           /\ intent.answer = "permanent" /\ intent'.kind = "none") =>
          /\ returned'.outcome = "rejected"
          /\ items' = items
          /\ queue' = queue
     /\ (intent.kind = "delete" /\ intent.pc = "answered"
           /\ intent.answer = "retryable" /\ intent'.kind = "none") =>
          /\ intent.taskId \notin DOMAIN items'
          /\ Enqueued(queue, queue')
          /\ queue'[Len(queue')].operation = "DELETE"
          /\ queue'[Len(queue')].taskId = intent.taskId
          /\ queue'[Len(queue')].retryCount = 0
    ]_vars

\* The operation ids of a sequence of queue entries.
IdsOf(q) == {q[i].id : i \in 1..Len(q)}

\* C21: the entries a drain works through are the queue as it was when the
\* drain started: the snapshot is the queue of that moment, it does not change
\* while the drain runs, and every entry the drain waits for, calls or records
\* a result for is one of the snapshot.
C21_SnapshotOnly ==
  [][\A d \in DrainIds :
       /\ (drains[d].pc = "idle" /\ drains'[d].pc # "idle") =>
            drains'[d].snapQueue = queue
       /\ (drains[d].pc # "idle" /\ drains'[d].pc # "idle") =>
            drains'[d].snapQueue = drains[d].snapQueue
       /\ drains'[d].pc \in {"backoff", "call", "delSave"} =>
            /\ drains'[d].idx \in 1..Len(drains'[d].snapQueue)
            /\ drains[d].pc # "idle" => OpAt(drains'[d]).id \in IdsOf(drains[d].snapQueue)
       /\ \A j \in NewResults(drains[d], drains'[d]) :
            drains[d].pc # "idle" =>
              drains'[d].results[j].opId \in IdsOf(drains[d].snapQueue)
    ]_vars

\* C21 witness: a drain has ended its loop while an operation enqueued after it
\* started is queued, never attempted.
C21_EnqueuedDuringDrain ==
  \E d \in DrainIds : \E i \in 1..Len(queue) :
    /\ drains[d].pc = "saveTasks"
    /\ Len(drains[d].snapQueue) >= 1
    /\ queue[i].id \notin IdsOf(drains[d].snapQueue)
    /\ queue[i].retryCount = 0
    /\ applied[queue[i].id] = 0
    /\ \A j \in 1..Len(drains[d].results) : drains[d].results[j].opId # queue[i].id

\* C22: a drain that has passed the connectivity check and awaited something
\* ends fulfilled, with its succeeded and failed counts.
C22_DrainAlwaysCompletes ==
  [][\A d \in DrainIds :
       (drains[d].pc # "idle" /\ drains'[d].pc = "idle") =>
         /\ returned'.thunk = "sync/processQueue"
         /\ returned'.outcome = "fulfilled"
         /\ returned'.successCount = drains[d].successCount
         /\ returned'.failureCount = drains[d].failureCount
    ]_vars

\* C25: a step changes the id of a stored record only from its local id to a
\* server-assigned id, in a drain step that records the success of a CREATE for
\* that record; so the id changes at most once.
C25_IdChangesOnce ==
  [][\A k \in DOMAIN items \cap DOMAIN items' :
       items'[k].id # items[k].id =>
         /\ items[k].id[1] = "L"
         /\ items'[k].id[1] = "S"
         /\ \E d \in DrainIds : \E j \in NewResults(drains[d], drains'[d]) :
              /\ drains'[d].results[j].success
              /\ SnapOp(drains[d], drains'[d].results[j].opId).operation = "CREATE"
              /\ SnapOp(drains[d], drains'[d].results[j].opId).taskId = k
    ]_vars

\* C28: a drain does not go on to wait for or call an operation that has
\* failed non-retryably or has reached MAX_RETRIES.  Left aside are the step
\* that follows an invocation of retryFailedOperation and the start of a drain
\* by the Retry Sync button (a start with the connectivity unchanged).
C28_FailedIsTerminal ==
  [][\A d \in DrainIds :
       (/\ drains'[d].pc \in {"backoff", "call"}
        /\ drains'[d].idx # drains[d].idx
        /\ returned.thunk # "sync/retryOperation"
        /\ ~(/\ drains[d].pc = "idle"
             /\ isConnected' = isConnected
             /\ isInternetReachable' = isInternetReachable)) =>
         /\ OpAt(drains'[d]).id \notin permFailed
         /\ OpAt(drains'[d]).retryCount < MAX_RETRIES
    ]_vars

\* C29: an operation that has failed retryably once, twice or three times is
\* given its first, second or third retry: a drain that gets to it waits 2 s,
\* 4 s or 8 s for it, and closes no operation as "Max retries exceeded" before
\* its third retry has been made (retryCount above MAX_RETRIES).
C29_ThreeRetries ==
  [][\A d \in DrainIds :
       /\ drains'[d].pc = "backoff" =>
            /\ OpAt(drains'[d]).retryCount \in 1..3
            /\ drains'[d].delay = CASE OpAt(drains'[d]).retryCount = 1 -> 2000
                                    [] OpAt(drains'[d]).retryCount = 2 -> 4000
                                    [] OTHER -> 8000
       /\ \A j \in NewResults(drains[d], drains'[d]) :
            drains'[d].results[j].error = "Max retries exceeded" =>
              SnapOp(drains'[d], drains'[d].results[j].opId).retryCount > 3
    ]_vars

\* The lane drain record dr holds, if any.
OwnLane(dr) == IF dr.pc \in {"backoff", "call", "delSave"} THEN {OpAt(dr).taskId} ELSE {}

\* The snapshot positions a step takes drain d over without stopping at them.
PassedOver(old, new) ==
  IF new.pc = "idle" THEN {}
  ELSE ((IF old.pc = "idle" THEN 1 ELSE old.idx + 1)..(new.idx - 1))

\* C30: an entry a drain passes over while another invocation holds the lane
\* of its record gets no result entry, stays in the queue as it is (retryCount
\* included) and leaves its record as it is; the succeeded and failed counts
\* grow by no more than the number of result entries the step appended.
C30_SkipIsNotFailure ==
  [][\A d \in DrainIds :
       drains'[d] # drains[d] =>
         /\ \A j \in PassedOver(drains[d], drains'[d]) :
              LET e == drains'[d].snapQueue[j] IN
                e.taskId \in (syncInProgressMap \ OwnLane(drains[d])) =>
                  /\ \A n \in NewResults(drains[d], drains'[d]) :
                       drains'[d].results[n].opId # e.id
                  /\ \A i \in 1..Len(queue) :
                       queue[i].id = e.id => \E m \in 1..Len(queue') : queue'[m] = queue[i]
                  /\ e.taskId \in DOMAIN items =>
                       /\ e.taskId \in DOMAIN items'
                       /\ items'[e.taskId] = items[e.taskId]
         /\ drains'[d].pc # "idle" =>
              (drains'[d].successCount + drains'[d].failureCount)
                - (IF drains[d].pc = "idle" THEN 0
                   ELSE drains[d].successCount + drains[d].failureCount)
              <= Len(drains'[d].results)
                   - (IF drains[d].pc = "idle" THEN 0 ELSE Len(drains[d].results))
    ]_vars

\* C30 witness: a drain has ended its loop without a result and with both
\* counts at zero for an entry that is still queued at retryCount 0, whose
\* record is still PENDING and whose lane another invocation holds.
C30_SkippedAndUntouched ==
  \E d \in DrainIds : \E j \in 1..Len(drains[d].snapQueue) :
    LET e == drains[d].snapQueue[j] IN
      /\ drains[d].pc = "saveTasks"
      /\ drains[d].successCount = 0 /\ drains[d].failureCount = 0
      /\ drains[d].results = <<>>
      /\ e.taskId \in syncInProgressMap
      /\ \E i \in 1..Len(queue) : queue[i] = e /\ e.retryCount = 0
      /\ e.taskId \in DOMAIN items /\ items[e.taskId].syncStatus = "PENDING"

\* C26: when a remote call of a drain fails retryably for an operation whose
\* retryCount is below MAX_RETRIES, the operation is still queued after the
\* step with retryCount one higher and lastError holding the failure's
\* message, and the record's syncStatus is as before.
C26_RetryBookkeeping ==
  [][\A d \in DrainIds :
       \A n \in NewResults(drains[d], drains'[d]) :
         ( /\ InCall(d)
           /\ drains'[d].results[n].opId = CurOp(d).id
           /\ drains'[d].results[n].error = "retryable"
           /\ CurOp(d).retryCount < MAX_RETRIES )
         => /\ \E i \in 1..Len(queue') :
                 /\ queue'[i].id = CurOp(d).id
                 /\ queue'[i].retryCount = CurOp(d).retryCount + 1
                 /\ queue'[i].lastError = drains'[d].results[n].error
            /\ CurOp(d).taskId \in DOMAIN items =>
                 /\ CurOp(d).taskId \in DOMAIN items'
                 /\ items'[CurOp(d).taskId].syncStatus = items[CurOp(d).taskId].syncStatus
    ]_vars

\* C27: every failure the remote gateway raises is classified by its cause: a
\* server error, a timeout or a lost connection counts as retryable, a
\* rejected request (bad request, unauthenticated) as not retryable.
C27_FailureClassification ==
  (intent.pc = "answered" /\ intent.cond \notin {"none", "ok"}) =>
    /\ intent.cond \in {"serverError", "timeout", "connectionLost"} =>
         intent.answer = "retryable"
    /\ intent.cond \in {"badRequest", "unauthenticated"} =>
         /\ intent.error.kind = "APIError"
         /\ ~intent.error.retryable
         /\ intent.answer = "permanent"

\* C23: a step in which a write awaited by a thunk settles and leaves durable
\* storage at its previous value (the write failed) changes neither the
\* record store nor the operation queue.
C23_FailedWriteLeavesStore ==
  [][( /\ storedTasks' = storedTasks
       /\ storedQueue' = storedQueue
       /\ \/ intent.pc = "save" /\ intent'.pc # "save"
          \/ pendingWrites' # pendingWrites /\ pendingWrites' \subseteq pendingWrites )
     => items' = items /\ queue' = queue]_vars

\* The debounced writes that are awaited.
SnapshotWrites(ws) == {w \in ws : w.key = "state"}

\* C24: at most one debounce timer is set at any time; every step that changes
\* the record store or the operation queue leaves a timer set, so a debounced
\* write follows the last mutation of a burst; and a step in which the timer
\* fires uses up the only timer and issues exactly one snapshot write, holding
\* the record store and the operation queue as they are at that moment, so no
\* second write follows until the store is mutated again.
C24_DebouncedPersist ==
  [][ /\ persistTimeout <= 1 /\ persistTimeout' <= 1
      /\ (items' # items \/ queue' # queue) => persistTimeout' = 1
      /\ SnapshotWrites(pendingWrites') \ SnapshotWrites(pendingWrites) # {} =>
           /\ persistTimeout = 1 /\ persistTimeout' = 0
           /\ SnapshotWrites(pendingWrites') \ SnapshotWrites(pendingWrites)
                = {[key |-> "state", value |-> <<items, queue>>]}
           /\ items' = items /\ queue' = queue
    ]_vars

\* C24 witness: two records were created and queued in a burst, nothing has
\* been written to storage before, and the timer has fired once: no timer is
\* set and the one snapshot write awaited holds both records and both
\* operations as they are in the store.
C24_BurstCoalesced ==
  /\ persistTimeout = 0
  /\ Len(queue) = 2 /\ Cardinality(DOMAIN items) = 2
  /\ storedTasks = EmptyItems /\ storedQueue = <<>>
  /\ pendingWrites = {[key |-> "state", value |-> <<items, queue>>]}

\* Every drain invocation comes to an end, and until then it moves through its
\* starting snapshot in one direction only, so that it issues at most one
\* remote call for an operation of the snapshot.
TerminatesAfterOnePass ==
  /\ \A d \in DrainIds : (drains[d].pc # "idle") ~> (drains[d].pc = "idle")
  /\ [][\A d \in DrainIds :
          /\ (drains[d].pc # "idle" /\ drains'[d].pc = "call" /\ drains'[d] # drains[d]) =>
               IF drains[d].pc = "backoff"
                 THEN drains'[d].idx = drains[d].idx
                 ELSE drains'[d].idx > drains[d].idx
          /\ (drains[d].pc # "idle" /\ drains'[d].pc # "idle") =>
               /\ drains'[d].snapQueue = drains[d].snapQueue
               /\ drains'[d].idx >= drains[d].idx
     ]_vars

\* C31: every drain invocation terminates, given that whatever it awaits
\* settles: it issues at most one remote call for an operation of its starting
\* snapshot, and it ends by returning its summary.
C31_DrainTerminates ==
  /\ TerminatesAfterOnePass
  /\ [][\A d \in DrainIds :
          (drains[d].pc # "idle" /\ drains'[d].pc = "idle") =>
            /\ returned'.thunk = "sync/processQueue"
            /\ returned'.outcome = "fulfilled"
     ]_vars

\* Drain d issues a remote call in this step: it arrives at an entry's call,
\* straight away or when the entry's backoff wait is over.
IssuesCall(d) ==
  /\ drains'[d].pc = "call"
  /\ drains[d].pc # "call" \/ drains'[d].idx # drains[d].idx

\* C32: a drain issues a remote call only while the connectivity state is
\* online (connected, and not known to be unreachable), also when connectivity
\* was lost after it started.
C32_NoCallWhileOffline ==
  [][\A d \in DrainIds :
       IssuesCall(d) => (isConnected' /\ isInternetReachable' # "false")]_vars

\* C33: every record of the record store is stored under its own id.
C33_KeyedByOwnId == \A k \in DOMAIN items : items[k].id = k

\* C34: once the queued CREATE of a record created offline has been confirmed
\* and the server-assigned id merged into the record, a remote update or
\* remove call a drain issues for that record names the server-assigned id.
C34_CallsUseServerId ==
  [][\A d \in DrainIds :
       LET op == OpAt(drains'[d]) IN
         ( /\ IssuesCall(d)
           /\ op.operation \in {"UPDATE", "DELETE"}
           /\ op.taskId \in DOMAIN items'
           /\ ~IsLocalId(items'[op.taskId].id) )
         => CallTarget(op) = items'[op.taskId].id]_vars

\* C35: once a record has been deleted (it is gone from the record store and
\* the deleting thunk has completed), no drain issues a remote create or
\* update for it.
C35_NoCallForDeletedRecord ==
  [][\A d \in DrainIds :
       LET op == OpAt(drains'[d]) IN
         ( /\ IssuesCall(d)
           /\ op.operation \in {"CREATE", "UPDATE"}
           /\ pendingWrites' = {}
           /\ intent' = NoIntent )
         => op.taskId \in DOMAIN items']_vars

\* C36: when bootstrap completes, every record that was PENDING or FAILED and
\* has an operation in the persisted queue is still in the record store.
C36_NoLocalLossAtStartup ==
  [][(boot.pc # "done" /\ boot'.pc = "done") =>
       \A k \in DOMAIN items :
         ( /\ items[k].syncStatus \in {"PENDING", "FAILED"}
           /\ \E i \in 1..Len(storedQueue) : storedQueue[i].taskId = k )
         => k \in DOMAIN items']_vars

\* C37: every retryably failed remote call raises the retryCount stored in the
\* queue for its operation by exactly one, also when invocations overlap.
C37_FailureRaisesStoredCount ==
  [][\A d \in DrainIds :
       \A n \in NewResults(drains[d], drains'[d]) :
         ( /\ InCall(d)
           /\ drains'[d].results[n].opId = CurOp(d).id
           /\ drains'[d].results[n].error = "retryable" )
         => \A i \in 1..Len(queue) :
              queue[i].id = CurOp(d).id =>
                \E j \in 1..Len(queue') :
                  /\ queue'[j].id = queue[i].id
                  /\ queue'[j].retryCount = queue[i].retryCount + 1]_vars

\* C38: the in-flight map holds exactly the records of the operations that
\* drains are suspended in (waiting for the backoff, the remote call or the
\* DELETE case's write); in particular it is empty whenever no drain is running.
C38_LanesReleased ==
  /\ syncInProgressMap =
       {drains[d].snapQueue[drains[d].idx].taskId :
          d \in {e \in DrainIds : drains[e].pc \in {"backoff", "call", "delSave"}}}
  /\ (\A d \in DrainIds : drains[d].pc = "idle") => syncInProgressMap = {}

\* C38 witness: an invocation has returned after an operation of it ended in
\* success and another in a terminal failure; no drain is running and the
\* in-flight map is empty.
C38_AllReleasedAfterDrain ==
  /\ \A d \in DrainIds : drains[d].pc = "idle"
  /\ returned.thunk = "sync/processQueue"
  /\ returned.outcome = "fulfilled"
  /\ returned.successCount >= 1
  /\ returned.failureCount >= 1
  /\ syncInProgressMap = {}

\* C39: an operation enqueued while the client is online is eventually
\* attempted and leaves the queue while the client stays online, with no
\* offline-to-online transition and no user action needed.  The antecedent is
\* a state in which every queued operation was enqueued while online: the only
\* invocation so far has fulfilled with no call of it failed (no queued
\* operation has a retry counted), so everything enqueued before it started
\* has left the queue, and the client has been online since it started.
C39_EnqueuedOnlineIsDrained ==
  (/\ isConnected /\ isInternetReachable # "false"
   /\ invocations = 1
   /\ \A d \in DrainIds : drains[d].pc = "idle"
   /\ returned.thunk = "sync/processQueue"
   /\ returned.outcome = "fulfilled"
   /\ returned.failureCount = 0
   /\ \A i \in 1..Len(queue) : queue[i].retryCount = 0
   /\ queue # <<>>)
    ~> (queue = <<>> \/ ~isConnected \/ isInternetReachable = "false")

\* C40: every queued operation has 0 <= retryCount <= MAX_RETRIES, an
\* operation enters the queue with retryCount 0, and the retryCount of an
\* operation that stays in the queue never decreases.
C40_RetryCountMonotone ==
  /\ [](\A i \in 1..Len(queue) :
          queue[i].retryCount >= 0 /\ queue[i].retryCount <= MAX_RETRIES)
  /\ [][\A j \in 1..Len(queue') :
          IF queue'[j].id \in {queue[i].id : i \in 1..Len(queue)}
            THEN \A i \in 1..Len(queue) :
                   queue[i].id = queue'[j].id =>
                     queue'[j].retryCount >= queue[i].retryCount
            ELSE queue'[j].retryCount = 0]_vars
====
